---- MODULE Spec2Model ----
(***************************************************************************)
(* Model of the ccna address calculators: ccna.ipv4.get_subnet_infos,      *)
(* ccna.ipv4.get_vlsm_optimal_subnets and ccna.ipv6.derive_subnets.        *)
(*                                                                         *)
(* A caller invokes one of the three functions with arguments drawn from   *)
(* bounded sets; the body of every for-loop is one action, and a call ends *)
(* either in pc = "returned" (with the value in `returned`) or in          *)
(* pc = "raised" (with the exception class in `exception`).                *)
(*                                                                         *)
(* A 32-bit IPv4 address value is kept as two 16-bit limbs <<hi, lo>>, its *)
(* text as four octets; an IPv6 address is eight 16-bit hextets, its text  *)
(* a sequence of hex-digit groups.                                         *)
(***************************************************************************)
EXTENDS Integers, Sequences, FiniteSets, TLC

(***************************************************************************)
(* Bounds of the model                                                     *)
(***************************************************************************)
\* longest list of required hosts the caller passes
MaxLen == 3
\* required hosts are drawn from 0..MaxHosts (plus the values of the tests)
MaxHosts == 8
\* prefix lengths offered to get_subnet_infos are 0..MaxPrefix
MaxPrefix == 33
\* derive_subnets is asked for 0..MaxCount subnets
MaxCount == 3

(***************************************************************************)
(* Integer helpers                                                         *)
(***************************************************************************)
\* one limb of the two-limb 32-bit value holds 16 bits
Limb == 2 ^ 16

Min(a, b) == IF a < b THEN a ELSE b

Max(a, b) == IF a > b THEN a ELSE b

Abs(n) == IF n < 0 THEN 0 - n ELSE n

RECURSIVE BitLength(_)
\* int.bit_length(): number of bits of the absolute value
BitLength(n) == IF n = 0 THEN 0 ELSE 1 + BitLength(Abs(n) \div 2)

(***************************************************************************)
(* ipaddress.IPv4Address / IPv4Network                                     *)
(***************************************************************************)
\* int(IPv4Address(text)): four octets to the 32-bit value
IPv4Parse(octets) == <<octets[1] * 256 + octets[2], octets[3] * 256 + octets[4]>>

\* str(IPv4Address): the 32-bit value to four octets
IPv4Str(a) == <<a[1] \div 256, a[1] % 256, a[2] \div 256, a[2] % 256>>

\* IPv4Address(n) accepts 0 <= n < 2^32 only
IPv4InRange(hi, lo) == hi >= 0 /\ hi < Limb

\* IPv4Address + n, as the pair (carry-normalised hi, lo)
IPv4AddHi(a, n) == a[1] + ((a[2] + n) \div Limb)

IPv4AddLo(a, n) == (a[2] + n) % Limb

IPv4Add(a, n) == <<IPv4AddHi(a, n), IPv4AddLo(a, n)>>

\* IPv4Address + n raises AddressValueError when the sum leaves 0..2^32-1
IPv4AddRaises(a, n) == ~IPv4InRange(IPv4AddHi(a, n), IPv4AddLo(a, n))

\* the top `keep` bits of a 16-bit limb
KeepBits(x, keep) == (x \div (2 ^ (16 - keep))) * (2 ^ (16 - keep))

\* the network mask of a prefix length, as a 32-bit value
Netmask(p) == <<KeepBits(Limb - 1, Min(p, 16)), KeepBits(Limb - 1, Max(p - 16, 0))>>

\* address & netmask
NetworkAddress(a, p) == <<KeepBits(a[1], Min(p, 16)), KeepBits(a[2], Max(p - 16, 0))>>

\* network_address | hostmask
BroadcastAddress(a, p) ==
    <<KeepBits(a[1], Min(p, 16)) + (2 ^ (16 - Min(p, 16))) - 1,
      KeepBits(a[2], Max(p - 16, 0)) + (2 ^ (16 - Max(p - 16, 0))) - 1>>

\* IPv4Network.num_addresses
NumAddresses(p) == 2 ^ (32 - p)

\* IPv4Network(..., strict=True) raises ValueError when host bits are set
HasHostBitsSet(a, p) == NetworkAddress(a, p) # a

\* a prefix length IPv4Network accepts
ValidPrefix(p) == p >= 0 /\ p <= 32

\* list.sort(reverse=True): insert x behind every element that is >= x
RECURSIVE InsertDescending(_, _)
InsertDescending(x, sorted) ==
    IF sorted = <<>> THEN <<x>>
    ELSE IF Head(sorted) >= x THEN <<Head(sorted)>> \o InsertDescending(x, Tail(sorted))
    ELSE <<x>> \o sorted

RECURSIVE SortDescending(_)
SortDescending(list) ==
    IF list = <<>> THEN <<>>
    ELSE InsertDescending(list[Len(list)], SortDescending(SubSeq(list, 1, Len(list) - 1)))

(***************************************************************************)
(* ipaddress.IPv6Address / IPv6Network                                     *)
(***************************************************************************)
\* bits of hextet k (1..8) that a prefix length keeps
HextetKeep(k, p) == Max(0, Min(16, p - 16 * (k - 1)))

\* IPv6Network(..., strict=False).network_address: the host bits masked off
IPv6NetworkAddress(hextets, p) == [k \in 1..8 |-> KeepBits(hextets[k], HextetKeep(k, p))]

\* one hextet as four hex digits (the exploded form)
Hex4(x) == <<x \div 4096, (x \div 256) % 16, (x \div 16) % 16, x % 16>>

\* IPv6Address.exploded.split(':')
Exploded(hextets) == [k \in 1..8 |-> Hex4(hextets[k])]

RECURSIVE ParseHex(_)
\* int(text, 16)
ParseHex(digits) ==
    IF digits = <<>> THEN 0
    ELSE ParseHex(SubSeq(digits, 1, Len(digits) - 1)) * 16 + digits[Len(digits)]

RECURSIVE FormatHex(_)
\* format(n, 'x'): hex digits without leading zeros
FormatHex(n) == IF n < 16 THEN <<n>> ELSE FormatHex(n \div 16) \o <<n % 16>>

RECURSIVE ZeroRun(_, _)
\* length of the run of zero hextets that starts at position k
ZeroRun(hextets, k) ==
    IF k > Len(hextets) \/ hextets[k] # 0 THEN 0 ELSE 1 + ZeroRun(hextets, k + 1)

\* the longest run of zero hextets; the leftmost one when several are longest
BestRunLen(hextets) ==
    CHOOSE n \in 0..8 : /\ \E k \in 1..8 : ZeroRun(hextets, k) = n
                        /\ \A k \in 1..8 : ZeroRun(hextets, k) <= n

BestRunStart(hextets) ==
    CHOOSE k \in 1..8 : /\ ZeroRun(hextets, k) = BestRunLen(hextets)
                        /\ \A j \in 1..(k - 1) : ZeroRun(hextets, j) < BestRunLen(hextets)

\* str(IPv6Address): hextets without leading zeros, and the longest run of two
\* or more zero hextets replaced by one empty group (the "::")
CompressHextets(hextets) ==
    IF BestRunLen(hextets) > 1
    THEN [k \in 1..(BestRunStart(hextets) - 1) |-> FormatHex(hextets[k])]
         \o << <<>> >>
         \o [k \in 1..(8 - (BestRunStart(hextets) + BestRunLen(hextets) - 1)) |->
                FormatHex(hextets[BestRunStart(hextets) + BestRunLen(hextets) - 1 + k])]
    ELSE [k \in 1..8 |-> FormatHex(hextets[k])]

\* compress_ipv6: parse the eight colon-separated groups, print compressed
compress_ipv6(segments) == CompressHextets([k \in 1..8 |-> ParseHex(segments[k])])

(***************************************************************************)
(* Arguments the caller passes                                             *)
(***************************************************************************)
ParentAddresses == {<<192, 168, 1, 0>>, <<10, 0, 0, 77>>, <<255, 255, 255, 240>>}

ParentPrefixes == {24, 30}

HostValues == (0..MaxHosts) \cup {10, 50}

HostLists == UNION {[1..n -> HostValues] : n \in 0..MaxLen}

SubnetTexts ==
    {[address |-> a, suffix |-> ""] :
        a \in {<<192, 168, 100, 0>>, <<192, 168, 1, 0>>, <<172, 16, 0, 0>>,
               <<10, 0, 0, 0>>, <<128, 0, 0, 0>>, <<192, 168, 1, 1>>}}
    \cup {[address |-> <<192, 168, 100, 0>>, suffix |-> "/24"]}

PrefixLengths == 0..MaxPrefix

StartingSubnets ==
    {[hextets |-> site \o <<seg>> \o iface, prefixlen |-> p] :
        site \in {<<8193, 3512, 44205>>, <<8193, 3512, 34211>>, <<0, 0, 0>>},
        seg \in {0, 200, 65519, 65534, 65535},
        iface \in {<<0, 0, 0, 0>>, <<0, 35374, 880, 29492>>, <<1, 0, 0, 1>>},
        p \in {48, 60, 64, 128}}

Counts == 0..MaxCount

\* arguments of get_hosts_from_subnet: blocks in CIDR notation, and texts that
\* do not parse (no address, an octet above 255, a prefix length above 32)
CidrTexts ==
    {[address |-> <<192, 168, 1, 0>>, prefixlen |-> p] : p \in {24, 29, 30, 31}}
    \cup {[address |-> <<192, 168, 1, 1>>, prefixlen |-> 32],
          [address |-> <<10, 0, 0, 64>>, prefixlen |-> 27],
          [address |-> <<255, 255, 255, 240>>, prefixlen |-> 28],
          [address |-> <<0, 0, 0, 0>>, prefixlen |-> 29],
          [address |-> <<>>, prefixlen |-> 0],
          [address |-> <<192, 168, 1, 256>>, prefixlen |-> 24],
          [address |-> <<192, 168, 1, 0>>, prefixlen |-> 33]}

(***************************************************************************)
(* State                                                                   *)
(***************************************************************************)
VARIABLES
    pc,                     \* "idle", "vlsm_loop", "infos_loop", "derive_loop", "hosts_loop", "returned", "raised"
    function,               \* the function the caller has invoked
    exception,              \* class of the exception raised, "none" otherwise
    returned,               \* the list the call returned
    orig_addr,              \* get_vlsm_optimal_subnets: argument
    orig_cidr,              \* get_vlsm_optimal_subnets: argument
    subnet_required_hosts,  \* get_vlsm_optimal_subnets: the caller's list object
    hosts_at_call,          \* contents of the caller's list when the call was made
    position,               \* get_vlsm_optimal_subnets: for-loop position in the list
    current_base_address,   \* get_vlsm_optimal_subnets: the cursor
    subnets,                \* get_vlsm_optimal_subnets: local result list
    subnet,                 \* get_subnet_infos: argument
    prefix_length,          \* get_subnet_infos: argument
    bits,                   \* get_subnet_infos: loop variable
    results,                \* get_subnet_infos: local result list
    starting_subnet,        \* derive_subnets: argument
    count,                  \* derive_subnets: argument
    base_segments,          \* derive_subnets: exploded groups of the network address
    i,                      \* derive_subnets: loop variable
    derived_subnets,        \* derive_subnets: local result list
    cidr_text,              \* get_hosts_from_subnet: argument
    host_index,             \* get_hosts_from_subnet: offset of the next host in the block
    host_list               \* get_hosts_from_subnet: local result list

callVars == <<pc, function, exception, returned>>

vlsmVars == <<orig_addr, orig_cidr, subnet_required_hosts, hosts_at_call, position,
              current_base_address, subnets>>

infosVars == <<subnet, prefix_length, bits, results>>

deriveVars == <<starting_subnet, count, base_segments, i, derived_subnets>>

hostsVars == <<cidr_text, host_index, host_list>>

vars == <<callVars, vlsmVars, infosVars, deriveVars, hostsVars>>

\* values of the variables a call does not use
NoVlsmCall ==
    /\ orig_addr = <<0, 0, 0, 0>>
    /\ orig_cidr = 0
    /\ subnet_required_hosts = <<>>
    /\ hosts_at_call = <<>>

NoSubnetInfosCall ==
    /\ subnet = [address |-> <<0, 0, 0, 0>>, suffix |-> ""]
    /\ prefix_length = 0

NoDeriveCall ==
    /\ starting_subnet = [hextets |-> <<0, 0, 0, 0, 0, 0, 0, 0>>, prefixlen |-> 0]
    /\ count = 0

NoHostsCall == cidr_text = [address |-> <<0, 0, 0, 0>>, prefixlen |-> 0]

\* the caller is about to invoke one of the three functions and holds its
\* arguments; no call has started, so every local is empty
Init ==
    /\ pc = "idle"
    /\ exception = "none"
    /\ returned = <<>>
    /\ position = 1
    /\ current_base_address = <<0, 0>>
    /\ subnets = <<>>
    /\ bits = 1
    /\ results = <<>>
    /\ base_segments = <<>>
    /\ i = 1
    /\ derived_subnets = <<>>
    /\ host_index = 1
    /\ host_list = <<>>
    /\ \/ /\ function = "get_vlsm_optimal_subnets"
          /\ orig_addr \in ParentAddresses
          /\ orig_cidr \in ParentPrefixes
          /\ subnet_required_hosts \in HostLists
          /\ hosts_at_call = subnet_required_hosts
          /\ NoSubnetInfosCall
          /\ NoDeriveCall
          /\ NoHostsCall
       \/ /\ function = "get_subnet_infos"
          /\ subnet \in SubnetTexts
          /\ prefix_length \in PrefixLengths
          /\ NoVlsmCall
          /\ NoDeriveCall
          /\ NoHostsCall
       \/ /\ function = "derive_subnets"
          /\ starting_subnet \in StartingSubnets
          /\ count \in Counts
          /\ NoVlsmCall
          /\ NoSubnetInfosCall
          /\ NoHostsCall
       \/ /\ function = "get_hosts_from_subnet"
          /\ cidr_text \in CidrTexts
          /\ NoVlsmCall
          /\ NoSubnetInfosCall
          /\ NoDeriveCall

(***************************************************************************)
(* ccna.ipv4.get_vlsm_optimal_subnets                                      *)
(***************************************************************************)
\* the "Fulfiller's" prefix length of one requirement
RequiredPrefixLength(hosts) == 32 - BitLength(hosts - 1)

\* IPv4Network(f'{current_base_address}/{required_prefix_length}', strict=False)
NewSubnet(base, p) ==
    [network_address |-> NetworkAddress(IPv4Parse(IPv4Str(base)), p),
     broadcast_address |-> BroadcastAddress(IPv4Parse(IPv4Str(base)), p),
     prefixlen |-> p,
     num_addresses |-> NumAddresses(p)]

\* the dict appended for one requirement
SubnetInfo(new_subnet) ==
    [subnet |-> IPv4Str(new_subnet.network_address),
     prefix_length |-> new_subnet.prefixlen,
     network |-> [address |-> IPv4Str(new_subnet.network_address),
                  prefixlen |-> new_subnet.prefixlen],
     first_host |-> IPv4Str(IPv4Add(new_subnet.network_address, 1)),
     last_host |-> IPv4Str(IPv4Add(new_subnet.broadcast_address, -1)),
     broadcast |-> IPv4Str(new_subnet.broadcast_address),
     total_hosts |-> new_subnet.num_addresses,
     usable_hosts |-> new_subnet.num_addresses - 2]

\* the address library raises ValueError in the loop body: a prefix length it
\* rejects, or address arithmetic that leaves the 32-bit range
IterationRaises(base, hosts) ==
    \/ ~ValidPrefix(RequiredPrefixLength(hosts))
    \/ IPv4AddRaises(NewSubnet(base, RequiredPrefixLength(hosts)).network_address, 1)
    \/ IPv4AddRaises(NewSubnet(base, RequiredPrefixLength(hosts)).broadcast_address, -1)
    \/ IPv4AddRaises(NewSubnet(base, RequiredPrefixLength(hosts)).broadcast_address, 1)

\* the cursor after a block
NextBaseAddress(new_subnet) == IPv4Add(new_subnet.broadcast_address, 1)

\* the call up to the loop: sort the caller's list in place, parse the parent
\* block (strict=False), start the cursor at its network address
VlsmCall ==
    /\ pc = "idle"
    /\ function = "get_vlsm_optimal_subnets"
    /\ subnet_required_hosts' = SortDescending(subnet_required_hosts)
    /\ current_base_address' = NetworkAddress(IPv4Parse(orig_addr), orig_cidr)
    /\ subnets' = <<>>
    /\ position' = 1
    /\ pc' = "vlsm_loop"
    /\ UNCHANGED <<function, exception, returned, orig_addr, orig_cidr, hosts_at_call,
                   infosVars, deriveVars, hostsVars>>

\* one pass of the for-loop
VlsmIterate ==
    /\ pc = "vlsm_loop"
    /\ position <= Len(subnet_required_hosts)
    /\ ~IterationRaises(current_base_address, subnet_required_hosts[position])
    /\ subnets' = Append(subnets,
          SubnetInfo(NewSubnet(current_base_address,
                               RequiredPrefixLength(subnet_required_hosts[position]))))
    /\ current_base_address' =
          NextBaseAddress(NewSubnet(current_base_address,
                                    RequiredPrefixLength(subnet_required_hosts[position])))
    /\ position' = position + 1
    /\ UNCHANGED <<callVars, orig_addr, orig_cidr, subnet_required_hosts, hosts_at_call,
                   infosVars, deriveVars, hostsVars>>

\* a pass of the for-loop in which the address library raises
VlsmRaise ==
    /\ pc = "vlsm_loop"
    /\ position <= Len(subnet_required_hosts)
    /\ IterationRaises(current_base_address, subnet_required_hosts[position])
    /\ pc' = "raised"
    /\ exception' = "ValueError"
    /\ UNCHANGED <<function, returned, vlsmVars, infosVars, deriveVars, hostsVars>>

\* return subnets
VlsmReturn ==
    /\ pc = "vlsm_loop"
    /\ position > Len(subnet_required_hosts)
    /\ pc' = "returned"
    /\ returned' = subnets
    /\ UNCHANGED <<function, exception, vlsmVars, infosVars, deriveVars, hostsVars>>

(***************************************************************************)
(* ccna.ipv4.get_subnet_infos                                              *)
(***************************************************************************)
\* assert "/" not in subnet
ContainsSlash(text) == text.suffix # ""

\* assert 1 <= prefix_length <= 32
PrefixLengthAccepted(p) == 1 <= p /\ p <= 32

\* a loop that stops one borrowed bit early
LastBorrowOneShort(p) == 29 - p

\* the largest number of bits the loop borrows: range(1, (30 - prefix_length) + 1)
LastBorrow(p) == 30 - p

\* str(IPv4Network(f'0.0.0.0/{new_prefix}').netmask)
SubnetMask(new_prefix) == IPv4Str(Netmask(new_prefix))

\* the tuple appended for one number of borrowed bits
SubnetInfoRow(net_prefixlen, borrowed) ==
    <<borrowed,
      SubnetMask(net_prefixlen + borrowed),
      2 ^ borrowed,
      (2 ^ (32 - (net_prefixlen + borrowed))) - 2>>

\* the call up to the loop: the two assertions, then the strict parse of the
\* base network, which raises ValueError when the address has host bits set
SubnetInfosCall ==
    /\ pc = "idle"
    /\ function = "get_subnet_infos"
    /\ results' = <<>>
    /\ bits' = 1
    /\ IF ContainsSlash(subnet) \/ ~PrefixLengthAccepted(prefix_length)
       THEN pc' = "raised" /\ exception' = "AssertionError"
       ELSE IF HasHostBitsSet(IPv4Parse(subnet.address), prefix_length)
       THEN pc' = "raised" /\ exception' = "ValueError"
       ELSE pc' = "infos_loop" /\ exception' = "none"
    /\ UNCHANGED <<function, returned, subnet, prefix_length, vlsmVars, deriveVars, hostsVars>>

\* one pass of the for-loop
SubnetInfosIterate ==
    /\ pc = "infos_loop"
    /\ bits <= LastBorrow(prefix_length)
    /\ results' = Append(results, SubnetInfoRow(prefix_length, bits))
    /\ bits' = bits + 1
    /\ UNCHANGED <<callVars, subnet, prefix_length, vlsmVars, deriveVars, hostsVars>>

\* return results
SubnetInfosReturn ==
    /\ pc = "infos_loop"
    /\ bits > LastBorrow(prefix_length)
    /\ pc' = "returned"
    /\ returned' = results
    /\ UNCHANGED <<function, exception, infosVars, vlsmVars, deriveVars, hostsVars>>

(***************************************************************************)
(* ccna.ipv6.derive_subnets                                                *)
(***************************************************************************)
\* the segment the loop increments: base_segments[3], counted from 0
SegmentIndex == 4

\* an increment that starts at 0 instead of 1
NewSegmentFromZero(segments, step) == ParseHex(segments[SegmentIndex]) + step - 1

\* int(base_segments[3], 16) + i
NewSegment(segments, step) == ParseHex(segments[SegmentIndex]) + step

\* a range check that also rejects 0xFFFF itself
SegmentExceededAtLimit(new_segment) == new_segment >= 65535

\* if new_segment > 0xFFFF: raise ValueError
SegmentExceeded(new_segment) == new_segment > 65535

\* base_segments[:3] + [format(new_segment, 'x')] + base_segments[4:], whose
\* last three groups are then overwritten with those of the base
NewSegments(segments, new_segment) ==
    [k \in 1..8 |->
        IF k >= 6 THEN segments[k]
        ELSE IF k = SegmentIndex THEN FormatHex(new_segment)
        ELSE segments[k]]

\* f"{compress_ipv6(new_address)}/64"
DerivedSubnet(segments, new_segment) ==
    [address |-> compress_ipv6(NewSegments(segments, new_segment)), prefixlen |-> 64]

\* the call up to the loop: parse the block (strict=False), explode its
\* network address into eight groups
DeriveCall ==
    /\ pc = "idle"
    /\ function = "derive_subnets"
    /\ base_segments' =
          Exploded(IPv6NetworkAddress(starting_subnet.hextets, starting_subnet.prefixlen))
    /\ derived_subnets' = <<>>
    /\ i' = 1
    /\ pc' = "derive_loop"
    /\ UNCHANGED <<function, exception, returned, starting_subnet, count, vlsmVars, infosVars, hostsVars>>

\* one pass of the for-loop that appends a subnet
DeriveIterate ==
    /\ pc = "derive_loop"
    /\ i <= count
    /\ ~SegmentExceeded(NewSegment(base_segments, i))
    /\ derived_subnets' =
          Append(derived_subnets, DerivedSubnet(base_segments, NewSegment(base_segments, i)))
    /\ i' = i + 1
    /\ UNCHANGED <<callVars, starting_subnet, count, base_segments, vlsmVars, infosVars, hostsVars>>

\* the pass of the for-loop that raises
DeriveRaise ==
    /\ pc = "derive_loop"
    /\ i <= count
    /\ SegmentExceeded(NewSegment(base_segments, i))
    /\ pc' = "raised"
    /\ exception' = "ValueError"
    /\ UNCHANGED <<function, returned, deriveVars, vlsmVars, infosVars, hostsVars>>

\* return derived_subnets
DeriveReturn ==
    /\ pc = "derive_loop"
    /\ i > count
    /\ pc' = "returned"
    /\ returned' = derived_subnets
    /\ UNCHANGED <<function, exception, deriveVars, vlsmVars, infosVars, hostsVars>>

(***************************************************************************)
(* ccna.ipv4.get_hosts_from_subnet (expand_hosts)                          *)
(***************************************************************************)
\* the argument parses as address/prefix-length
CidrParses(text) ==
    /\ Len(text.address) = 4
    /\ \A j \in 1..4 : text.address[j] \in 0..255
    /\ ValidPrefix(text.prefixlen)

\* a block that also lists its broadcast address
LastHostOffsetWithBroadcast(p) == NumAddresses(p) - 1

\* offset of the last usable host from the network address: the network and
\* the broadcast address are left out, so a /31 and a /32 have no host
LastHostOffset(p) == NumAddresses(p) - 2

\* the call up to the loop: parse the block, ValueError when it does not parse
HostsCall ==
    /\ pc = "idle"
    /\ function = "get_hosts_from_subnet"
    /\ host_list' = <<>>
    /\ host_index' = 1
    /\ IF CidrParses(cidr_text)
       THEN pc' = "hosts_loop" /\ exception' = "none"
       ELSE pc' = "raised" /\ exception' = "ValueError"
    /\ UNCHANGED <<function, returned, cidr_text, vlsmVars, infosVars, deriveVars>>

\* one usable host appended, in ascending order
HostsIterate ==
    /\ pc = "hosts_loop"
    /\ host_index <= LastHostOffset(cidr_text.prefixlen)
    /\ host_list' = Append(host_list,
          IPv4Str(IPv4Add(NetworkAddress(IPv4Parse(cidr_text.address), cidr_text.prefixlen),
                          host_index)))
    /\ host_index' = host_index + 1
    /\ UNCHANGED <<callVars, cidr_text, vlsmVars, infosVars, deriveVars>>

\* return the list of hosts
HostsReturn ==
    /\ pc = "hosts_loop"
    /\ host_index > LastHostOffset(cidr_text.prefixlen)
    /\ pc' = "returned"
    /\ returned' = host_list
    /\ UNCHANGED <<function, exception, hostsVars, vlsmVars, infosVars, deriveVars>>

(***************************************************************************)
(* Specification                                                           *)
(***************************************************************************)
Next ==
    \/ VlsmCall
    \/ VlsmIterate
    \/ VlsmRaise
    \/ VlsmReturn
    \/ SubnetInfosCall
    \/ SubnetInfosIterate
    \/ SubnetInfosReturn
    \/ DeriveCall
    \/ DeriveIterate
    \/ DeriveRaise
    \/ DeriveReturn
    \/ HostsCall
    \/ HostsIterate
    \/ HostsReturn

Spec == Init /\ [][Next]_vars

TypeOK ==
    /\ pc \in {"idle", "vlsm_loop", "infos_loop", "derive_loop", "hosts_loop", "returned", "raised"}
    /\ exception \in {"none", "ValueError", "AssertionError"}
    /\ (pc = "raised") <=> (exception # "none")

(***************************************************************************)
(* Vocabulary of the properties                                            *)
(***************************************************************************)
VlsmReturned == function = "get_vlsm_optimal_subnets" /\ pc = "returned"

VlsmEnded == function = "get_vlsm_optimal_subnets" /\ pc \in {"returned", "raised"}

SubnetInfosEnded == function = "get_subnet_infos" /\ pc \in {"returned", "raised"}

DeriveEnded == function = "derive_subnets" /\ pc \in {"returned", "raised"}

HostsEnded == function = "get_hosts_from_subnet" /\ pc \in {"returned", "raised"}

\* order of two dotted addresses
DottedLess(a, b) ==
    \E j \in 1..4 : a[j] < b[j] /\ \A m \in 1..(j - 1) : a[m] = b[m]

\* broadcast address of the parent block orig_addr/orig_cidr, dotted
ParentBroadcast == IPv4Str(BroadcastAddress(IPv4Parse(orig_addr), orig_cidr))

\* bits of octet j (1..4) that lie inside a prefix of length p
OctetBits(j, p) == Max(0, Min(8, p - 8 * (j - 1)))

\* the dotted mask of a prefix length, octet by octet
DottedMask(p) == [j \in 1..4 |-> 256 - 2 ^ (8 - OctetBits(j, p))]

\* a dotted address without a bit set beyond the prefix length
IsNetworkAddressOf(octets, p) == \A j \in 1..4 : octets[j] % (2 ^ (8 - OctetBits(j, p))) = 0

\* a text of four octets 0..255 and a prefix length 0..32
CidrIsBlock(text) ==
    /\ Len(text.address) = 4
    /\ \A j \in 1..4 : text.address[j] >= 0 /\ text.address[j] <= 255
    /\ text.prefixlen >= 0 /\ text.prefixlen <= 32

\* first address of the block octets/p, dotted
BlockNetwork(octets, p) ==
    [j \in 1..4 |-> octets[j] - (octets[j] % (2 ^ (8 - OctetBits(j, p))))]

\* last address of the block octets/p, dotted
BlockBroadcast(octets, p) ==
    [j \in 1..4 |-> BlockNetwork(octets, p)[j] + (2 ^ (8 - OctetBits(j, p))) - 1]

\* the dotted address that follows a (below 255.255.255.255)
DottedSucc(a) ==
    IF a[4] < 255 THEN <<a[1], a[2], a[3], a[4] + 1>>
    ELSE IF a[3] < 255 THEN <<a[1], a[2], a[3] + 1, 0>>
    ELSE IF a[2] < 255 THEN <<a[1], a[2] + 1, 0, 0>>
    ELSE <<a[1] + 1, 0, 0, 0>>

\* the row the enumeration owes for b borrowed bits of a /p block
ExpectedRow(p, b) == <<b, DottedMask(p + b), 2 ^ b, 2 ^ (32 - p - b) - 2>>

\* hextet k of a block with the bits beyond the prefix length cleared
MaskedHextet(block, k) ==
    block.hextets[k] - (block.hextets[k] % (2 ^ (16 - Max(0, Min(16, block.prefixlen - 16 * (k - 1))))))

\* hextet[3] of the normalized starting network address
StartSegment == MaskedHextet(starting_subnet, 4)

RECURSIVE HexValue(_)
HexValue(digits) ==
    IF digits = <<>> THEN 0 ELSE 16 * HexValue(SubSeq(digits, 1, Len(digits) - 1)) + digits[Len(digits)]

\* position of the "::" in a compressed address text, 0 when it has none
GapAt(text) == IF \E k \in 1..Len(text) : text[k] = <<>>
               THEN CHOOSE k \in 1..Len(text) : text[k] = <<>>
               ELSE 0

\* the eight hextets a compressed address text denotes
TextHextets(text) ==
    [k \in 1..8 |->
        IF GapAt(text) = 0 THEN HexValue(text[k])
        ELSE IF k < GapAt(text) THEN HexValue(text[k])
        ELSE IF k <= 8 - (Len(text) - GapAt(text)) THEN 0
        ELSE HexValue(text[k - (8 - Len(text))])]

(***************************************************************************)
(* Properties                                                              *)
(***************************************************************************)
\* C1: get_vlsm_optimal_subnets returns no list when some computed block's
\* broadcast address lies beyond the broadcast address of the parent block.
C1_ExhaustionRaises ==
    VlsmReturned =>
        \A k \in 1..Len(returned) : ~DottedLess(ParentBroadcast, returned[k].broadcast)

\* C2: in a returned list the block emitted for requirement h has at least h
\* usable hosts (total addresses minus 2).
C2_UsableHostsCoverRequirement ==
    VlsmReturned =>
        \A k \in 1..Len(returned) : returned[k].usable_hosts >= subnet_required_hosts[k]

\* C3: the returned blocks are pairwise non-overlapping as ranges
\* [network, broadcast] and their network addresses strictly increase.
C3_DisjointAscending ==
    VlsmReturned =>
        /\ \A j \in 1..Len(returned), k \in 1..Len(returned) :
              j < k => \/ DottedLess(returned[j].broadcast, returned[k].subnet)
                       \/ DottedLess(returned[k].broadcast, returned[j].subnet)
        /\ \A k \in 1..(Len(returned) - 1) : DottedLess(returned[k].subnet, returned[k + 1].subnet)

\* C4: one result per input requirement, in descending-requirement order, so
\* that prefix lengths are non-decreasing along the returned list.
C4_OnePerRequirementDescending ==
    VlsmReturned =>
        /\ Len(returned) = Len(hosts_at_call)
        /\ \A k \in 1..(Len(returned) - 1) :
              /\ subnet_required_hosts[k] >= subnet_required_hosts[k + 1]
              /\ returned[k].prefix_length <= returned[k + 1].prefix_length

\* C5: after the call returns or fails, the caller's required-hosts list holds
\* the same elements in the same order as before the call.
C5_CallerListUntouched == VlsmEnded => subnet_required_hosts = hosts_at_call

C7_PrefixOutOfRangeAsserts ==
    (SubnetInfosEnded /\ prefix_length \in {0, 31})
    => (pc = "raised" /\ exception = "AssertionError")

\* C8: get_subnet_infos accepts any bare dotted address with any prefix length
\* in 1..30, host bits set or not, and returns the rows of that prefix length.
C8_AnyAddressAccepted ==
    (SubnetInfosEnded /\ subnet.suffix = "" /\ prefix_length \in 1..30)
    => /\ pc = "returned"
       /\ Len(returned) = 30 - prefix_length
       /\ \A b \in 1..Len(returned) : returned[b] = ExpectedRow(prefix_length, b)

\* C9: when hextet[3] of the normalized starting network address is v and
\* v + count <= 0xFFFF, derive_subnets returns exactly count blocks; the k-th
\* is a /64 whose hextet[3] is v + k and whose other hextets are those of the
\* normalized starting network address.
C9_DerivedBlocks ==
    (DeriveEnded /\ StartSegment + count <= 65535)
    => /\ pc = "returned"
       /\ Len(returned) = count
       /\ \A k \in 1..Len(returned) :
             /\ returned[k].prefixlen = 64
             /\ TextHextets(returned[k].address) =
                   [m \in 1..8 |-> IF m = 4 THEN StartSegment + k
                                   ELSE MaskedHextet(starting_subnet, m)]

C9_Witness ==
    /\ DeriveEnded
    /\ starting_subnet = [hextets |-> <<8193, 3512, 34211, 200, 0, 35374, 880, 29492>>,
                          prefixlen |-> 60]
    /\ count = 3
    /\ Len(returned) = 3
    /\ returned[3].address = <<<<2, 0, 0, 1>>, <<13, 11, 8>>, <<8, 5, 10, 3>>, <<12, 3>>, <<>>>>

\* C10: derive_subnets raises ValueError exactly when count >= 1 and
\* hextet[3] + count > 0xFFFF, and then returns none of the blocks it had
\* computed for the smaller indices.
C10_SegmentRangeExceeded ==
    DeriveEnded =>
        /\ (pc = "raised") <=> (count >= 1 /\ StartSegment + count > 65535)
        /\ pc = "raised" => (exception = "ValueError" /\ returned = <<>>)

C10_Witness ==
    /\ DeriveEnded
    /\ pc = "raised"
    /\ StartSegment = 65534
    /\ count = 2
    /\ Len(derived_subnets) = 1

\* C11: for a block in CIDR notation the host expansion returns every address
\* of the block except the network and the broadcast address, in ascending
\* order; nothing for a /31 or a /32; ValueError for an argument that does
\* not parse.
C11_UsableHostsListed ==
    HostsEnded =>
        IF CidrIsBlock(cidr_text)
        THEN /\ pc = "returned"
             /\ Len(returned) = Max(0, 2 ^ (32 - cidr_text.prefixlen) - 2)
             /\ cidr_text.prefixlen \in {31, 32} => returned = <<>>
             /\ \A k \in 1..Len(returned) :
                   /\ DottedLess(BlockNetwork(cidr_text.address, cidr_text.prefixlen), returned[k])
                   /\ DottedLess(returned[k], BlockBroadcast(cidr_text.address, cidr_text.prefixlen))
             /\ \A k \in 1..(Len(returned) - 1) : DottedLess(returned[k], returned[k + 1])
        ELSE pc = "raised" /\ exception = "ValueError" /\ returned = <<>>

C11_Witness ==
    /\ HostsEnded
    /\ cidr_text = [address |-> <<192, 168, 1, 0>>, prefixlen |-> 24]
    /\ Len(returned) = 254
    /\ returned[1] = <<192, 168, 1, 1>>
    /\ returned[254] = <<192, 168, 1, 254>>

\* C12: in every run of get_vlsm_optimal_subnets the first emitted block starts
\* at the network address of the parent block, and each later block starts one
\* address past the broadcast address of the block before it.
C12_PackedBackToBack ==
    function = "get_vlsm_optimal_subnets" =>
        /\ Len(subnets) >= 1 => subnets[1].subnet = BlockNetwork(orig_addr, orig_cidr)
        /\ \A k \in 1..(Len(subnets) - 1) :
              subnets[k + 1].subnet = DottedSucc(subnets[k].broadcast)

\* C13: every block get_vlsm_optimal_subnets emits has a prefix length of at
\* most 30, so its usable-host count is not negative and first_host and
\* last_host lie inside the block with first_host <= last_host.
C13_BlocksHoldHosts ==
    function = "get_vlsm_optimal_subnets" =>
        \A k \in 1..Len(subnets) :
            /\ subnets[k].prefix_length <= 30
            /\ subnets[k].usable_hosts >= 0
            /\ ~DottedLess(subnets[k].last_host, subnets[k].first_host)
            /\ ~DottedLess(subnets[k].first_host, subnets[k].subnet)
            /\ ~DottedLess(subnets[k].broadcast, subnets[k].last_host)

====
